---- MODULE Spec2Model ----
(***************************************************************************)
(* The SealedBidFeedlot contract (Cairo, embedded in                      *)
(* src/packages/nextjs/app/page copy.tsx, lines 749-1099) as a state      *)
(* machine.  Every external call is one transaction: Starknet executes it *)
(* atomically and reverts all of its writes when an assert fails.         *)
(* The handlers of the web pages (page.tsx, page copy.tsx) that send the   *)
(* commit and reveal transactions are modelled on top of it.               *)
(***************************************************************************)
EXTENDS Integers, Sequences, FiniteSets, TLC

\* ------------------------------------------------------------------ bounds
MaxAccount == 2     \* accounts are 1..MaxAccount
MaxLotId == 1       \* lot ids are 1..MaxLotId
MaxTime == 1        \* block timestamps are 0..MaxTime
MaxDuration == 1    \* durations are 1..MaxDuration
MaxAmount == 2      \* amounts (u256) are 0..MaxAmount
MaxNonce == 1       \* nonces (felt252) are 0..MaxNonce
MaxLotCount == 2    \* create_lot is cut off once lot_count reaches this
LowBits == 1        \* width of u256.low, scaled down from 128
MaxBids == 2        \* handleCommit is cut off once bids_<lot> holds this many

\* --------------------------------------------------------------- identities
Zero == 0           \* Zero::zero(): the zero address, the default of storage
Owner == 1          \* the constructor's argument

Accounts == 1..MaxAccount
Addresses == {Zero} \cup Accounts
Verifier == MaxAccount + 1                \* a deployed verifier contract
VerifierAddresses == {Verifier}            \* what the setters are called with
Amounts == 0..MaxAmount
Nonces == 0..MaxNonce            \* the nonces a reveal may carry
CommitNonces == 1..MaxNonce      \* the nonces commitments are made with
Durations == 1..MaxDuration
Producers == {Zero, MaxAccount}   \* the productor of a create_lot call
Razas == {1}
Pesos == {1}
Cantidades == {1}
Uris == {"ipfs://a"}

\* What call_contract_syscall on the verifier can give back: a failed call
\* (the verifier panicked), or a normal return carrying the serialized
\* Option<Span<u256>> of verify_ultra_keccak_honk_proof.
Verdicts == {"Err", "OkNone", "OkSome"}

\* ------------------------------------------------------------------ hashing
\* u256.low
low(x) == x % (2 ^ LowBits)

\* One more than every value that is hashed, plus one: the radix of the
\* encoding below.
Larger(a, b) == IF a > b THEN a ELSE b

FeltRadix ==
    Larger(Larger(MaxNonce, 2 ^ LowBits), Larger(MaxAccount, MaxAmount)) + 2

\* poseidon_hash_span: collision resistant, so modelled as an injective
\* encoding of the hashed span (never 0, the storage default).
RECURSIVE poseidon_hash_span(_)
poseidon_hash_span(span) ==
    IF span = <<>> THEN 0
    ELSE poseidon_hash_span(SubSeq(span, 1, Len(span) - 1)) * FeltRadix
         + span[Len(span)] + 1

\* The values that are hashed, and poseidon_hash_span tabulated on the spans
\* of four of them.
Felts == 0..(FeltRadix - 2)

Poseidon4 ==
    [a \in Felts, b \in Felts, c \in Felts, d \in Felts |->
        poseidon_hash_span(<<a, b, c, d>>)]

\* The commitment reveal_bid recomputes.
commit_hash(nonce, amount, lot_id, caller) ==
    Poseidon4[nonce, low(amount), low(lot_id), caller]

\* ------------------------------------------------------------------- state
VARIABLES
    owner,             \* owner: Map<(), ContractAddress>
    lots,              \* lots: Map<u256, LotInfo>
    commitments,       \* commitments: Map<(ContractAddress, u256), felt252>
    lot_count,         \* lot_count: felt252
    bidders_count,     \* bidders_count: Map<u256, u32>
    bidder_at,         \* bidder_at: Map<(u256, u32), ContractAddress>
    auction_verifier,  \* auction_verifier: ContractAddress
    payment_verifier,  \* payment_verifier: ContractAddress
    payment_done,      \* payment_done: Map<u256, bool>
    winner_record,     \* winner_record: Map<u256, (ContractAddress, u256)>
    events,            \* the events emitted so far, in order
    now,               \* get_block_timestamp()
    res,               \* the last transaction: the call and how it ended
    created,           \* history: lot ids of the create_lot calls that succeeded
    finalize_ok,       \* history: lot ids of the finalize calls that succeeded
    revealed,          \* history: per lot, the highest amount revealed so far and
                       \* the first bidder that revealed it
    client             \* the web client (page.tsx, page copy.tsx): the handler
                       \* that is running, its Cavos session calls, localStorage

\* The lot ids of a run: the keys of lots that the calls are made with.
LotIds == DOMAIN lots

\* The contract's storage and event log.
durable ==
    <<owner, lots, commitments, lot_count, bidders_count, bidder_at,
      auction_verifier, payment_verifier, payment_done, winner_record, events>>

history == <<created, finalize_ok, revealed>>

vars == <<durable, now, res, history, client>>

\* The value a LotInfo slot reads before anything was written to it.
EmptyLot ==
    [productor |-> Zero, raza |-> 0, peso_inicial |-> 0, cantidad_animales |-> 0,
     metadata_uri |-> "", start_time |-> 0, duration |-> 0, finalizado |-> FALSE,
     mejor_puja |-> 0, mejor_postor |-> Zero]

\* The history of a lot on which no reveal succeeded yet.
NoReveal == [any |-> FALSE, amount |-> 0, first |-> Zero]

\* The record of a transaction that went through: the entry point and its
\* arguments (those it does not have are left at their zero).
\* addr is the address argument (productor, winner, verifier_address), felt
\* the commitment of commit_bid or the nonce of reveal_bid, time the duration
\* of create_lot, verdict what the verifier call gave back.
Call(op, caller, lot_id, addr, amount, felt, time, verdict) ==
    [op |-> op, caller |-> caller, lot_id |-> lot_id, addr |-> addr,
     amount |-> amount, felt |-> felt, time |-> time, verdict |-> verdict,
     err |-> "ok"]

\* The record of a reverted transaction: a panic undoes the whole
\* transaction, and all that is left of it is that it reverted.
Reverted(op, lot_id, err) ==
    [op |-> "", caller |-> Zero, lot_id |-> 0, addr |-> Zero,
     amount |-> 0, felt |-> 0, time |-> 0, verdict |-> "", err |-> "reverted"]

\* localStorage before the client wrote anything for a key.
NoBid == [set |-> FALSE, secret |-> 0, amount |-> 0, commitment |-> 0]

\* selectedLotInfo of the page before a lot is selected (null), and the
\* fields of the lot object that the handlers read.
NoLot == [set |-> FALSE, id |-> 0, finalizado |-> FALSE, mejor_puja |-> 0,
          mejor_postor |-> Zero]

LotObject(id, info) ==
    [set |-> TRUE, id |-> id, finalizado |-> info.finalizado,
     mejor_puja |-> info.mejor_puja, mejor_postor |-> info.mejor_postor]

\* The client when the page is loaded: no handler is running, no session
\* call was made, localStorage is empty.
\* page is the page whose handler ran last and pc the position of
\* handleCommit of page.tsx between its awaits; cavos is isCavosAuth and
\* registered whether the Cavos session is registered on-chain; account,
\* lot_id, amount, nonce, commitment, committed and revealed are the React
\* state (activeAccountAddress, selectedLotId, ...); calls are the Cavos
\* session functions the running handler has called, in order; zk is the
\* localStorage entry zk_<lot>_<account> and bids the list bids_<lot>;
\* pending are the calls of verifyAndRestore that have not completed yet,
\* each with the lot and the account it was started for.
ClientLoaded(ids) ==
    [page |-> "", pc |-> "idle", cavos |-> FALSE, registered |-> FALSE,
     account |-> Zero, lot_id |-> 0, amount |-> 0, nonce |-> 0,
     commitment |-> 0, committed |-> FALSE, revealed |-> FALSE,
     calls |-> << >>, selectedLotInfo |-> NoLot, pending |-> {},
     zk |-> [k \in Accounts \X ids |-> NoBid],
     bids |-> [l \in ids |-> << >>]]

\* The state after the constructor ran, for calls made with the lot ids ids.
Deployed(ids) ==
    /\ owner = Owner
    /\ lots = [l \in ids |-> EmptyLot]
    /\ commitments = [k \in Accounts \X ids |-> 0]
    /\ lot_count = 0
    /\ bidders_count = [l \in ids |-> 0]
    /\ bidder_at = << >>
    /\ auction_verifier = Zero
    /\ payment_verifier = Zero
    /\ payment_done = [l \in ids |-> FALSE]
    /\ winner_record = [l \in ids |-> <<Zero, 0>>]
    /\ events = << >>
    /\ now = 0
    /\ res = Call("constructor", Zero, 0, Owner, 0, 0, 0, "")
    /\ created = {}
    /\ finalize_ok = {}
    /\ revealed = [l \in ids |-> NoReveal]
    /\ client = ClientLoaded(ids)

Init == Deployed(1..MaxLotId)

\* --------------------------------------------------------------- create_lot
create_lot_err(caller, lot_id) ==
    IF caller # owner THEN "Not owner"
    ELSE IF lots[lot_id].productor # Zero THEN "Lot already exists"
    ELSE "ok"

create_lot ==
    \E caller \in Accounts, lot_id \in LotIds :
        LET err == create_lot_err(caller, lot_id)
        IN  /\ lot_count < MaxLotCount
            /\ IF err = "ok"
               THEN \E productor \in Producers, raza \in Razas, peso_inicial \in Pesos,
                       cantidad_animales \in Cantidades, metadata_uri \in Uris,
                       duration \in Durations :
                    /\ res' = Call("create_lot", caller, lot_id, productor, 0, 0, duration, "")
                    /\ lots' = [lots EXCEPT ![lot_id] =
                            [productor |-> productor, raza |-> raza,
                             peso_inicial |-> peso_inicial,
                             cantidad_animales |-> cantidad_animales,
                             metadata_uri |-> metadata_uri,
                             start_time |-> now, duration |-> duration,
                             finalizado |-> FALSE, mejor_puja |-> 0,
                             mejor_postor |-> Zero]]
                    /\ lot_count' = lot_count + 1
                    /\ created' = created \cup {lot_id}
                    /\ UNCHANGED <<owner, commitments, bidders_count, bidder_at,
                                   auction_verifier, payment_verifier, payment_done,
                                   winner_record, events, finalize_ok, revealed>>
               ELSE /\ res' = Reverted("create_lot", lot_id, err)
                    /\ UNCHANGED <<durable, history>>
            /\ UNCHANGED <<now, client>>

\* --------------------------------------------------------------- commit_bid
\* The felts a bidder sends as a commitment: the hash of a bid of its own
\* on that lot, as the client computes it (computeCommitment).
CommitValues(caller, lot_id) ==
    {commit_hash(n, a, lot_id, caller) : n \in CommitNonces, a \in Amounts}

commit_bid_err(lot_id) ==
    IF lots[lot_id].productor = Zero THEN "Lot does not exist"
    ELSE IF lots[lot_id].finalizado THEN "Lot already finalized"
    ELSE IF ~(now < lots[lot_id].start_time + lots[lot_id].duration) THEN "Auction ended"
    ELSE "ok"

\* already_exists without the loop: the caller is never found.
already_exists_never(lot_id, caller) == FALSE

\* already_exists looking the caller up in the roster of every lot.
already_exists_any_lot(lot_id, caller) ==
    \E k \in DOMAIN bidder_at : bidder_at[k] = caller

\* The loop of commit_bid over bidder_at[(lot_id, 0 .. count-1)].
already_exists(lot_id, caller) ==
    \E i \in 0..(bidders_count[lot_id] - 1) : bidder_at[<<lot_id, i>>] = caller

\* commit_bid keeping the first commitment of a bidder: the slot is written
\* only while it holds the storage default.
commit_bid_keep_first ==
    \E caller \in Accounts, lot_id \in LotIds :
        LET err == commit_bid_err(lot_id)
            count == bidders_count[lot_id]
        IN  /\ IF err = "ok"
               THEN \E commitment \in CommitValues(caller, lot_id) :
                    /\ res' = Call("commit_bid", caller, lot_id, Zero, 0, commitment, 0, "")
                    /\ commitments' =
                         IF commitments[<<caller, lot_id>>] = 0
                         THEN [commitments EXCEPT ![<<caller, lot_id>>] = commitment]
                         ELSE commitments
                    /\ IF ~already_exists(lot_id, caller)
                       THEN /\ bidder_at' = (<<lot_id, count>> :> caller) @@ bidder_at
                            /\ bidders_count' = [bidders_count EXCEPT ![lot_id] = count + 1]
                       ELSE UNCHANGED <<bidder_at, bidders_count>>
                    /\ UNCHANGED <<owner, lots, lot_count, auction_verifier,
                                   payment_verifier, payment_done, winner_record, events>>
               ELSE /\ res' = Reverted("commit_bid", lot_id, err)
                    /\ UNCHANGED durable
            /\ UNCHANGED <<now, history, client>>

\* What commit_bid does once its asserts passed.
commit_bid_writes(caller, lot_id, commitment) ==
    LET count == bidders_count[lot_id]
    IN  /\ res' = Call("commit_bid", caller, lot_id, Zero, 0, commitment, 0, "")
        /\ commitments' = [commitments EXCEPT ![<<caller, lot_id>>] = commitment]
        /\ IF ~already_exists(lot_id, caller)
           THEN /\ bidder_at' = (<<lot_id, count>> :> caller) @@ bidder_at
                /\ bidders_count' = [bidders_count EXCEPT ![lot_id] = count + 1]
           ELSE UNCHANGED <<bidder_at, bidders_count>>
        /\ UNCHANGED <<owner, lots, lot_count, auction_verifier,
                       payment_verifier, payment_done, winner_record, events>>

commit_bid ==
    \E caller \in Accounts, lot_id \in LotIds :
        LET err == commit_bid_err(lot_id)
        IN  /\ IF err = "ok"
               THEN \E commitment \in CommitValues(caller, lot_id) :
                        commit_bid_writes(caller, lot_id, commitment)
               ELSE /\ res' = Reverted("commit_bid", lot_id, err)
                    /\ UNCHANGED durable
            /\ UNCHANGED <<now, history, client>>

\* --------------------------------------------------------------- reveal_bid
\* reveal_bid_err without the comparison with the stored commitment.
reveal_bid_err_unchecked(caller, lot_id, amount, nonce) ==
    IF lots[lot_id].productor = Zero THEN "Lot does not exist"
    ELSE IF lots[lot_id].finalizado THEN "Lot already finalized"
    ELSE IF ~(now < lots[lot_id].start_time + lots[lot_id].duration) THEN "Auction ended"
    ELSE "ok"

\* reveal_bid_err with <= for < in the window assert.
reveal_bid_err_late(caller, lot_id, amount, nonce) ==
    IF lots[lot_id].productor = Zero THEN "Lot does not exist"
    ELSE IF lots[lot_id].finalizado THEN "Lot already finalized"
    ELSE IF ~(now <= lots[lot_id].start_time + lots[lot_id].duration) THEN "Auction ended"
    ELSE IF commit_hash(nonce, amount, lot_id, caller) # commitments[<<caller, lot_id>>]
         THEN "Commitment mismatch"
    ELSE "ok"

reveal_bid_err(caller, lot_id, amount, nonce) ==
    IF lots[lot_id].productor = Zero THEN "Lot does not exist"
    ELSE IF lots[lot_id].finalizado THEN "Lot already finalized"
    ELSE IF ~(now < lots[lot_id].start_time + lots[lot_id].duration) THEN "Auction ended"
    ELSE IF commit_hash(nonce, amount, lot_id, caller) # commitments[<<caller, lot_id>>]
         THEN "Commitment mismatch"
    ELSE "ok"

\* reveal_bid_lot with >= for >: a tie takes the lot over.
reveal_bid_lot_ties(lot, caller, amount) ==
    IF amount >= lot.mejor_puja
    THEN [lot EXCEPT !.mejor_puja = amount, !.mejor_postor = caller]
    ELSE lot

\* reveal_bid_lot restarting the window of the lot at a new best bid.
reveal_bid_lot_restart(lot, caller, amount) ==
    IF amount > lot.mejor_puja
    THEN [lot EXCEPT !.mejor_puja = amount, !.mejor_postor = caller,
                     !.duration = lot.duration + 1]
    ELSE lot

\* reveal_bid_lot without the comparison: the last reveal takes the lot.
reveal_bid_lot_last(lot, caller, amount) ==
    [lot EXCEPT !.mejor_puja = amount, !.mejor_postor = caller]

\* The lot as reveal_bid leaves it.
reveal_bid_lot(lot, caller, amount) ==
    IF amount > lot.mejor_puja
    THEN [lot EXCEPT !.mejor_puja = amount, !.mejor_postor = caller]
    ELSE lot

\* The history after one more successful reveal: a strictly higher amount
\* (or the very first reveal) replaces the entry, a tie or a lower one does not.
Noted(h, caller, amount) ==
    IF ~h.any \/ amount > h.amount
    THEN [any |-> TRUE, amount |-> amount, first |-> caller]
    ELSE h

\* reveal_bid_writes clearing the commitment it has opened.
reveal_bid_writes_consume(caller, lot_id, amount, nonce) ==
    /\ res' = Call("reveal_bid", caller, lot_id, Zero, amount, nonce, 0, "")
    /\ lots' = [lots EXCEPT ![lot_id] = reveal_bid_lot(@, caller, amount)]
    /\ commitments' = [commitments EXCEPT ![<<caller, lot_id>>] = 0]
    /\ revealed' = [revealed EXCEPT ![lot_id] = Noted(@, caller, amount)]
    /\ UNCHANGED <<owner, lot_count, bidders_count,
                   bidder_at, auction_verifier, payment_verifier,
                   payment_done, winner_record, events,
                   created, finalize_ok>>

\* What reveal_bid does once its asserts passed.
reveal_bid_writes(caller, lot_id, amount, nonce) ==
    /\ res' = Call("reveal_bid", caller, lot_id, Zero, amount, nonce, 0, "")
    /\ lots' = [lots EXCEPT ![lot_id] = reveal_bid_lot(@, caller, amount)]
    /\ revealed' = [revealed EXCEPT ![lot_id] = Noted(@, caller, amount)]
    /\ UNCHANGED <<owner, commitments, lot_count, bidders_count,
                   bidder_at, auction_verifier, payment_verifier,
                   payment_done, winner_record, events,
                   created, finalize_ok>>

reveal_bid ==
    \E caller \in Accounts, lot_id \in LotIds, amount \in Amounts, nonce \in Nonces :
        LET err == reveal_bid_err(caller, lot_id, amount, nonce)
        IN  /\ IF err = "ok"
               THEN reveal_bid_writes(caller, lot_id, amount, nonce)
               ELSE /\ res' = Reverted("reveal_bid", lot_id, err)
                    /\ UNCHANGED <<durable, history>>
            /\ UNCHANGED <<now, client>>

\* ------------------------------------------------------------- finalize_lot
\* finalize_lot_err with an assert that the window is over.
finalize_lot_err_after_window(caller, lot_id) ==
    IF caller # owner THEN "Not owner"
    ELSE IF lots[lot_id].finalizado THEN "Already finalized"
    ELSE IF now < lots[lot_id].start_time + lots[lot_id].duration THEN "Auction not ended"
    ELSE "ok"

finalize_lot_err(caller, lot_id) ==
    IF caller # owner THEN "Not owner"
    ELSE IF lots[lot_id].finalizado THEN "Already finalized"
    ELSE "ok"

\* finalize_lot without the emit: the winner record is written, no event.
finalize_lot_silent ==
    \E caller \in Accounts, lot_id \in LotIds :
        LET err == finalize_lot_err(caller, lot_id)
            winner == lots[lot_id].mejor_postor
            amount == lots[lot_id].mejor_puja
        IN  /\ IF err = "ok"
               THEN /\ res' = Call("finalize_lot", caller, lot_id, Zero, 0, 0, 0, "")
                    /\ lots' = [lots EXCEPT ![lot_id].finalizado = TRUE]
                    /\ IF winner # Zero
                       THEN winner_record' =
                                 [winner_record EXCEPT ![lot_id] = <<winner, amount>>]
                       ELSE UNCHANGED winner_record
                    /\ finalize_ok' = finalize_ok \cup {lot_id}
                    /\ UNCHANGED <<owner, commitments, lot_count, bidders_count,
                                   bidder_at, auction_verifier, payment_verifier,
                                   payment_done, events, created, revealed>>
               ELSE /\ res' = Reverted("finalize_lot", lot_id, err)
                    /\ UNCHANGED <<durable, history>>
            /\ UNCHANGED <<now, client>>

\* finalize_lot without the test of the winner: the record and the event are
\* written on a lot with no best bidder too.
finalize_lot_always_records ==
    \E caller \in Accounts, lot_id \in LotIds :
        LET err == finalize_lot_err(caller, lot_id)
            winner == lots[lot_id].mejor_postor
            amount == lots[lot_id].mejor_puja
        IN  /\ IF err = "ok"
               THEN /\ res' = Call("finalize_lot", caller, lot_id, Zero, 0, 0, 0, "")
                    /\ lots' = [lots EXCEPT ![lot_id].finalizado = TRUE]
                    /\ winner_record' =
                         [winner_record EXCEPT ![lot_id] = <<winner, amount>>]
                    /\ events' = Append(events,
                         <<"WinnerRecorded", lot_id, winner, amount>>)
                    /\ finalize_ok' = finalize_ok \cup {lot_id}
                    /\ UNCHANGED <<owner, commitments, lot_count, bidders_count,
                                   bidder_at, auction_verifier, payment_verifier,
                                   payment_done, created, revealed>>
               ELSE /\ res' = Reverted("finalize_lot", lot_id, err)
                    /\ UNCHANGED <<durable, history>>
            /\ UNCHANGED <<now, client>>

finalize_lot ==
    \E caller \in Accounts, lot_id \in LotIds :
        LET err == finalize_lot_err(caller, lot_id)
            winner == lots[lot_id].mejor_postor
            amount == lots[lot_id].mejor_puja
        IN  /\ IF err = "ok"
               THEN /\ res' = Call("finalize_lot", caller, lot_id, Zero, 0, 0, 0, "")
                    /\ lots' = [lots EXCEPT ![lot_id].finalizado = TRUE]
                    /\ IF winner # Zero
                       THEN /\ winner_record' =
                                 [winner_record EXCEPT ![lot_id] = <<winner, amount>>]
                            /\ events' = Append(events,
                                 <<"WinnerRecorded", lot_id, winner, amount>>)
                       ELSE UNCHANGED <<winner_record, events>>
                    /\ finalize_ok' = finalize_ok \cup {lot_id}
                    /\ UNCHANGED <<owner, commitments, lot_count, bidders_count,
                                   bidder_at, auction_verifier, payment_verifier,
                                   payment_done, created, revealed>>
               ELSE /\ res' = Reverted("finalize_lot", lot_id, err)
                    /\ UNCHANGED <<durable, history>>
            /\ UNCHANGED <<now, client>>

\* ----------------------------------------------------- set_auction_verifier
\* set_verifier_err without the 'Not owner' assert.
set_verifier_err_anyone(caller) == "ok"

set_verifier_err(caller) ==
    IF caller # owner THEN "Not owner" ELSE "ok"

set_auction_verifier ==
    \E caller \in Accounts :
        LET err == set_verifier_err(caller)
        IN  /\ IF err = "ok"
               THEN \E verifier_address \in VerifierAddresses :
                    /\ res' = Call("set_auction_verifier", caller, 0, verifier_address, 0, 0, 0, "")
                    /\ auction_verifier' = verifier_address
                    /\ UNCHANGED <<owner, lots, commitments, lot_count, bidders_count,
                                   bidder_at, payment_verifier, payment_done,
                                   winner_record, events>>
               ELSE /\ res' = Reverted("set_auction_verifier", 0, err)
                    /\ UNCHANGED durable
            /\ UNCHANGED <<now, history, client>>

\* --------------------------------------------------------- finalize_with_zk
\* The match on the result of call_contract_syscall: only a failed call
\* stops the transaction; what a normal return carries is not looked at.
syscall_err(verdict, msg) ==
    IF verdict = "Err" THEN msg ELSE "ok"

\* finalize_with_zk_err without the 'Already finalized' assert.
finalize_with_zk_err_again(caller, lot_id, verdict) ==
    IF caller # owner THEN "Not owner"
    ELSE IF lots[lot_id].productor = Zero THEN "Lot does not exist"
    ELSE IF auction_verifier = Zero THEN "Verifier not set"
    ELSE syscall_err(verdict, "Proof verification failed")

finalize_with_zk_err(caller, lot_id, verdict) ==
    IF caller # owner THEN "Not owner"
    ELSE IF lots[lot_id].productor = Zero THEN "Lot does not exist"
    ELSE IF lots[lot_id].finalizado THEN "Already finalized"
    ELSE IF auction_verifier = Zero THEN "Verifier not set"
    ELSE syscall_err(verdict, "Proof verification failed")

\* finalize_with_zk with the best bid of the reveals kept when there is one:
\* the declared winner and amount are used only on a lot with no best bidder.
finalize_with_zk_keep_best ==
    \E caller \in Accounts, lot_id \in LotIds, verdict \in Verdicts :
        LET err == finalize_with_zk_err(caller, lot_id, verdict)
            kept == lots[lot_id].mejor_postor # Zero
        IN  /\ IF err = "ok"
               THEN \E winner \in Addresses, winner_amount \in Amounts :
                    LET w == IF kept THEN lots[lot_id].mejor_postor ELSE winner
                        a == IF kept THEN lots[lot_id].mejor_puja ELSE winner_amount
                    IN  /\ res' = Call("finalize_with_zk", caller, lot_id, winner,
                                       winner_amount, 0, 0, verdict)
                        /\ lots' = [lots EXCEPT ![lot_id] =
                                [@ EXCEPT !.finalizado = TRUE, !.mejor_postor = w,
                                          !.mejor_puja = a]]
                        /\ winner_record' = [winner_record EXCEPT ![lot_id] = <<w, a>>]
                        /\ events' = Append(events, <<"AuctionFinalized", lot_id, w, a>>)
                        /\ finalize_ok' = finalize_ok \cup {lot_id}
                        /\ UNCHANGED <<owner, commitments, lot_count, bidders_count,
                                       bidder_at, auction_verifier, payment_verifier,
                                       payment_done, created, revealed>>
               ELSE /\ res' = Reverted("finalize_with_zk", lot_id, err)
                    /\ UNCHANGED <<durable, history>>
            /\ UNCHANGED <<now, client>>

\* finalize_with_zk writing the declared winner to winner_record only: the
\* lot keeps the best bid of the reveals.
finalize_with_zk_record_only ==
    \E caller \in Accounts, lot_id \in LotIds, verdict \in Verdicts :
        LET err == finalize_with_zk_err(caller, lot_id, verdict)
        IN  /\ IF err = "ok"
               THEN \E winner \in Addresses, winner_amount \in Amounts :
                    /\ res' = Call("finalize_with_zk", caller, lot_id, winner,
                                   winner_amount, 0, 0, verdict)
                    /\ lots' = [lots EXCEPT ![lot_id].finalizado = TRUE]
                    /\ winner_record' =
                         [winner_record EXCEPT ![lot_id] = <<winner, winner_amount>>]
                    /\ events' = Append(events,
                         <<"AuctionFinalized", lot_id, winner, winner_amount>>)
                    /\ finalize_ok' = finalize_ok \cup {lot_id}
                    /\ UNCHANGED <<owner, commitments, lot_count, bidders_count,
                                   bidder_at, auction_verifier, payment_verifier,
                                   payment_done, created, revealed>>
               ELSE /\ res' = Reverted("finalize_with_zk", lot_id, err)
                    /\ UNCHANGED <<durable, history>>
            /\ UNCHANGED <<now, client>>

\* What a finalize_with_zk that passed its asserts and its verifier call
\* writes.
finalize_with_zk_writes(caller, lot_id, winner, winner_amount, verdict) ==
    /\ res' = Call("finalize_with_zk", caller, lot_id, winner,
                   winner_amount, 0, 0, verdict)
    /\ lots' = [lots EXCEPT ![lot_id] =
            [@ EXCEPT !.finalizado = TRUE, !.mejor_postor = winner,
                      !.mejor_puja = winner_amount]]
    /\ winner_record' =
         [winner_record EXCEPT ![lot_id] = <<winner, winner_amount>>]
    /\ events' = Append(events,
         <<"AuctionFinalized", lot_id, winner, winner_amount>>)
    /\ finalize_ok' = finalize_ok \cup {lot_id}
    /\ UNCHANGED <<owner, commitments, lot_count, bidders_count,
                   bidder_at, auction_verifier, payment_verifier,
                   payment_done, created, revealed>>

finalize_with_zk ==
    \E caller \in Accounts, lot_id \in LotIds, verdict \in Verdicts :
        LET err == finalize_with_zk_err(caller, lot_id, verdict)
        IN  /\ IF err = "ok"
               THEN \E winner \in Addresses, winner_amount \in Amounts :
                    finalize_with_zk_writes(caller, lot_id, winner,
                                            winner_amount, verdict)
               ELSE /\ res' = Reverted("finalize_with_zk", lot_id, err)
                    /\ UNCHANGED <<durable, history>>
            /\ UNCHANGED <<now, client>>

\* ----------------------------------------------------- set_payment_verifier
set_payment_verifier ==
    \E caller \in Accounts :
        LET err == set_verifier_err(caller)
        IN  /\ IF err = "ok"
               THEN \E verifier_address \in VerifierAddresses :
                    /\ res' = Call("set_payment_verifier", caller, 0, verifier_address, 0, 0, 0, "")
                    /\ payment_verifier' = verifier_address
                    /\ UNCHANGED <<owner, lots, commitments, lot_count, bidders_count,
                                   bidder_at, auction_verifier, payment_done,
                                   winner_record, events>>
               ELSE /\ res' = Reverted("set_payment_verifier", 0, err)
                    /\ UNCHANGED durable
            /\ UNCHANGED <<now, history, client>>

\* ----------------------------------------------------------- verify_payment
\* verify_payment_err without the 'Payment already done' assert.
verify_payment_err_repeat(caller, lot_id, verdict) ==
    IF lots[lot_id].productor = Zero THEN "Lot does not exist"
    ELSE IF ~lots[lot_id].finalizado THEN "Lot not finalized"
    ELSE IF caller # lots[lot_id].mejor_postor THEN "Only winner can pay"
    ELSE IF payment_verifier = Zero THEN "Payment verifier not set"
    ELSE syscall_err(verdict, "Payment proof failed")

\* verify_payment_err reading auction_verifier for payment_verifier: one
\* verifier slot for both proofs.
verify_payment_err_shared(caller, lot_id, verdict) ==
    IF lots[lot_id].productor = Zero THEN "Lot does not exist"
    ELSE IF ~lots[lot_id].finalizado THEN "Lot not finalized"
    ELSE IF caller # lots[lot_id].mejor_postor THEN "Only winner can pay"
    ELSE IF payment_done[lot_id] THEN "Payment already done"
    ELSE IF auction_verifier = Zero THEN "Payment verifier not set"
    ELSE syscall_err(verdict, "Payment proof failed")

\* verify_payment_err with the 'Payment already done' assert after the call
\* of the verifier.
verify_payment_err_reverify(caller, lot_id, verdict) ==
    IF lots[lot_id].productor = Zero THEN "Lot does not exist"
    ELSE IF ~lots[lot_id].finalizado THEN "Lot not finalized"
    ELSE IF caller # lots[lot_id].mejor_postor THEN "Only winner can pay"
    ELSE IF payment_verifier = Zero THEN "Payment verifier not set"
    ELSE IF verdict = "Err" THEN "Payment proof failed"
    ELSE IF payment_done[lot_id] THEN "Payment already done"
    ELSE "ok"

\* verify_payment_err without the 'Only winner can pay' assert.
verify_payment_err_anyone(caller, lot_id, verdict) ==
    IF lots[lot_id].productor = Zero THEN "Lot does not exist"
    ELSE IF ~lots[lot_id].finalizado THEN "Lot not finalized"
    ELSE IF payment_done[lot_id] THEN "Payment already done"
    ELSE IF payment_verifier = Zero THEN "Payment verifier not set"
    ELSE syscall_err(verdict, "Payment proof failed")

verify_payment_err(caller, lot_id, verdict) ==
    IF lots[lot_id].productor = Zero THEN "Lot does not exist"
    ELSE IF ~lots[lot_id].finalizado THEN "Lot not finalized"
    ELSE IF caller # lots[lot_id].mejor_postor THEN "Only winner can pay"
    ELSE IF payment_done[lot_id] THEN "Payment already done"
    ELSE IF payment_verifier = Zero THEN "Payment verifier not set"
    ELSE syscall_err(verdict, "Payment proof failed")

\* verify_payment with payment_done written before the verifier is called
\* and a failed proof reported without undoing that write.
verify_payment_early_write ==
    \E caller \in Accounts, lot_id \in LotIds, verdict \in Verdicts :
        LET err == verify_payment_err(caller, lot_id, verdict)
            winner == lots[lot_id].mejor_postor
        IN  /\ IF err = "ok"
               THEN /\ res' = Call("verify_payment", caller, lot_id, Zero, 0, 0, 0, verdict)
                    /\ payment_done' = [payment_done EXCEPT ![lot_id] = TRUE]
                    /\ events' = Append(events, <<"PaymentVerified", lot_id, winner>>)
               ELSE /\ res' = Reverted("verify_payment", lot_id, err)
                    /\ payment_done' = [payment_done EXCEPT ![lot_id] =
                                            @ \/ err = "Payment proof failed"]
                    /\ UNCHANGED events
            /\ UNCHANGED <<owner, lots, commitments, lot_count, bidders_count,
                           bidder_at, auction_verifier, payment_verifier,
                           winner_record, now, history, client>>

verify_payment ==
    \E caller \in Accounts, lot_id \in LotIds, verdict \in Verdicts :
        LET err == verify_payment_err(caller, lot_id, verdict)
            winner == lots[lot_id].mejor_postor
        IN  /\ IF err = "ok"
               THEN /\ res' = Call("verify_payment", caller, lot_id, Zero, 0, 0, 0, verdict)
                    /\ payment_done' = [payment_done EXCEPT ![lot_id] = TRUE]
                    /\ events' = Append(events, <<"PaymentVerified", lot_id, winner>>)
                    /\ UNCHANGED <<owner, lots, commitments, lot_count, bidders_count,
                                   bidder_at, auction_verifier, payment_verifier,
                                   winner_record>>
               ELSE /\ res' = Reverted("verify_payment", lot_id, err)
                    /\ UNCHANGED durable
            /\ UNCHANGED <<now, history, client>>

\* The block timestamp advances between transactions.
Tick ==
    /\ now < MaxTime
    /\ now' = now + 1
    /\ res' = Call("tick", Zero, 0, Zero, 0, 0, 0, "")
    /\ UNCHANGED <<durable, history, client>>

Next ==
    \/ create_lot
    \/ commit_bid
    \/ reveal_bid
    \/ finalize_lot
    \/ set_auction_verifier
    \/ finalize_with_zk
    \/ set_payment_verifier
    \/ verify_payment
    \/ Tick

Spec == Init /\ [][Next]_vars

\* ------------------------------------------------------------------ queries
\* The entry points that take self: @ContractState.  Each operator is what
\* the call returns.

\* A get_lot_info that works the status out from the clock.
get_lot_info_by_clock(lot_id) ==
    [lots[lot_id] EXCEPT !.finalizado = @ \/ now >= lots[lot_id].start_time
                                                    + lots[lot_id].duration]

get_winning_bid(lot_id) == lots[lot_id].mejor_puja

get_lot_info(lot_id) == lots[lot_id]

get_lot_count == lot_count

get_bidders_count(lot_id) == bidders_count[lot_id]

\* A slot of bidder_at that was never written reads as the zero address.
get_bidder_at(lot_id, index) ==
    IF <<lot_id, index>> \in DOMAIN bidder_at
    THEN bidder_at[<<lot_id, index>>] ELSE Zero

is_payment_done(lot_id) == payment_done[lot_id]

get_winner(lot_id) == winner_record[lot_id]

\* (computed, stored, account_address, caller); the account of the
\* transaction and the caller are the calling account.
debug_reveal(caller, lot_id, amount, nonce) ==
    <<commit_hash(nonce, amount, lot_id, caller), commitments[<<caller, lot_id>>],
      caller, caller>>

\* The indexes get_bidder_at is called with: those of a full roster and the
\* one past it.
Indexes == 0..MaxAccount

\* A call of a query: what is left of it is the call itself, the contract's
\* storage is only read.  caller is recorded for debug_reveal, the one query
\* that reads it, and left at zero for the others.
View(op, caller, lot_id, amount, felt) ==
    /\ res' = Call(op, caller, lot_id, Zero, amount, felt, 0, "")
    /\ UNCHANGED <<durable, now, history, client>>

get_winning_bid_call ==
    \E lot_id \in LotIds : View("get_winning_bid", Zero, lot_id, 0, 0)

get_lot_info_call ==
    \E lot_id \in LotIds : View("get_lot_info", Zero, lot_id, 0, 0)

get_lot_count_call == View("get_lot_count", Zero, 0, 0, 0)

get_bidders_count_call ==
    \E lot_id \in LotIds : View("get_bidders_count", Zero, lot_id, 0, 0)

get_bidder_at_call ==
    \E lot_id \in LotIds, index \in Indexes :
        View("get_bidder_at", Zero, lot_id, 0, index)

is_payment_done_call ==
    \E lot_id \in LotIds : View("is_payment_done", Zero, lot_id, 0, 0)

get_winner_call ==
    \E lot_id \in LotIds : View("get_winner", Zero, lot_id, 0, 0)

debug_reveal_call ==
    \E caller \in Accounts, lot_id \in LotIds, amount \in Amounts,
       nonce \in Nonces :
        View("debug_reveal", caller, lot_id, amount, nonce)

Queries ==
    {"get_winning_bid", "get_lot_info", "get_lot_count", "get_bidders_count",
     "get_bidder_at", "is_payment_done", "get_winner", "debug_reveal"}

\* The queries called between the transactions that write what they read:
\* lots, commitments, the roster, lot_count, winner_record and payment_done.
NextQueries ==
    \/ create_lot
    \/ commit_bid
    \/ reveal_bid
    \/ finalize_lot
    \/ set_payment_verifier
    \/ verify_payment
    \/ Tick
    \/ get_winning_bid_call
    \/ get_lot_info_call
    \/ get_lot_count_call
    \/ get_bidders_count_call
    \/ get_bidder_at_call
    \/ is_payment_done_call
    \/ get_winner_call
    \/ debug_reveal_call

SpecQueries == Init /\ [][NextQueries]_vars

\* ----------------------------------------------------------------- two lots
\* The contract called with two lot ids, for what the calls on one lot do to
\* the other.
TwoLotIds == 1..(MaxLotId + 1)

InitTwoLots == Deployed(TwoLotIds)

\* The entry points that write lots, commitments, the roster and
\* winner_record, all called within the window (the clock stands still).
NextTwoLots ==
    \/ create_lot
    \/ commit_bid
    \/ reveal_bid
    \/ finalize_lot

SpecTwoLots == InitTwoLots /\ [][NextTwoLots]_vars

\* ------------------------------------------------------------------- client
\* The handlers of the two pages, page.tsx and page copy.tsx, that commit and
\* reveal bids; each await is a point where the chain may move on.

\* u256.high (splitU256)
high(x) == x \div (2 ^ LowBits)

\* poseidonHashMany of starknet.js: the hash poseidon_hash_span computes.
poseidonHashMany(felts) == poseidon_hash_span(felts)

\* computeCommitment of page.tsx.
computeCommitment(secret, amount, lot_id, winner) ==
    poseidonHashMany(<<secret, low(amount), low(lot_id), winner>>)

\* calculatedCommitment of both pages: the preview shown before the commit.
preview_hash(amount, nonce) ==
    poseidonHashMany(<<low(amount), high(amount), nonce>>)

isAuctionActive(lot) ==
    /\ ~lot.finalizado
    /\ now < lot.start_time + lot.duration

\* The lots the page lists (fetchAllLots reads 1..get_lot_count()) and lets
\* the user select.
Listed == {l \in LotIds : l <= lot_count}

\* handleCommit of page.tsx from the computation of the commitment to the
\* call of executeTransaction: the bid goes to zk_<lot>_<account> and to the
\* end of bids_<lot>.
Stored(c) ==
    LET poseidonCommitment ==
            computeCommitment(c.nonce, c.amount, c.lot_id, c.account)
    IN  [c EXCEPT
            !.pc = "execute",
            !.zk[<<c.account, c.lot_id>>] =
                [set |-> TRUE, secret |-> c.nonce, amount |-> c.amount,
                 commitment |-> poseidonCommitment],
            !.bids[c.lot_id] =
                Append(@, [secret |-> c.nonce, amount |-> c.amount,
                           winner |-> c.account,
                           commitment |-> poseidonCommitment])]

\* handleCommit of page.tsx up to its first await: with Cavos it waits for
\* the session, with a wallet it goes on to store the bid.
handleCommit ==
    /\ client.pc = "idle"
    /\ \E account \in Accounts, lot_id \in Listed, amount \in Amounts,
          nonce \in CommitNonces, isCavosAuth \in BOOLEAN :
        /\ isAuctionActive(lots[lot_id])
        /\ Len(client.bids[lot_id]) < MaxBids
        /\ LET c == [client EXCEPT !.page = "page.tsx", !.account = account,
                                   !.lot_id = lot_id, !.amount = amount,
                                   !.nonce = nonce, !.cavos = isCavosAuth,
                                   !.calls = << >>]
           IN  client' = IF isCavosAuth THEN [c EXCEPT !.pc = "session"]
                         ELSE Stored(c)
    /\ UNCHANGED <<durable, now, res, history>>

\* handleCommit of page.tsx after waitForSessionReady: when the session is
\* not ready it calls registerCurrentSession and waits again; a failure
\* ends the handler in its catch.
handleCommit_session ==
    /\ client.pc = "session"
    /\ \E ready \in BOOLEAN, readyAfterReg \in BOOLEAN :
        LET c == [client EXCEPT !.calls = Append(@, "registerCurrentSession")]
        IN  client' =
                IF ready THEN Stored(client)
                ELSE IF readyAfterReg THEN Stored([c EXCEPT !.registered = TRUE])
                ELSE [c EXCEPT !.pc = "idle", !.committed = FALSE]
    /\ UNCHANGED <<durable, now, res, history>>

\* executeTransaction called by handleCommit of page.tsx, and the rest of
\* the handler.  With Cavos and no registered session cavosExecute throws
\* 'Session not registered': the policy is updated, the session registered
\* and the call sent again.  The transaction is commit_bid.
executeTransaction ==
    /\ client.pc = "execute"
    /\ LET retry == client.cavos /\ ~client.registered
           c == IF retry
                THEN [client EXCEPT !.calls = @ \o <<"updateSessionPolicy",
                                                     "registerCurrentSession">>]
                ELSE client
           err == commit_bid_err(client.lot_id)
           \* the commitment the call was populated with: the one just
           \* written to zk_<lot>_<account>
           poseidonCommitment == client.zk[<<client.account, client.lot_id>>].commitment
       IN  \/ /\ retry
              /\ client' = [c EXCEPT !.pc = "idle", !.committed = FALSE]
              /\ UNCHANGED <<durable, res, history>>
           \/ /\ err = "ok"
              /\ commit_bid_writes(client.account, client.lot_id, poseidonCommitment)
              /\ client' = [c EXCEPT !.pc = "idle", !.committed = TRUE,
                                     !.commitment = poseidonCommitment,
                                     !.registered = @ \/ retry]
              /\ UNCHANGED history
           \/ /\ err # "ok"
              /\ res' = Reverted("commit_bid", client.lot_id, err)
              /\ client' = [c EXCEPT !.pc = "idle", !.committed = FALSE,
                                     !.registered = @ \/ retry]
              /\ UNCHANGED <<durable, history>>
    /\ UNCHANGED now

\* handleCommit of page copy.tsx: commitCalls sends calculatedCommitment.
handleCommit_copy ==
    /\ client.pc = "idle"
    /\ \E account \in Accounts, lot_id \in Listed, amount \in Amounts,
          nonce \in CommitNonces :
        LET calculatedCommitment == preview_hash(amount, nonce)
            c == [client EXCEPT !.page = "page copy.tsx", !.account = account,
                                !.lot_id = lot_id, !.amount = amount,
                                !.nonce = nonce, !.revealed = FALSE,
                                !.calls = << >>]
            err == commit_bid_err(lot_id)
        IN  /\ isAuctionActive(lots[lot_id])
            /\ IF err = "ok"
               THEN /\ commit_bid_writes(account, lot_id, calculatedCommitment)
                    /\ client' = [c EXCEPT !.commitment = calculatedCommitment,
                                           !.committed = TRUE]
               ELSE /\ res' = Reverted("commit_bid", lot_id, err)
                    /\ client' = [c EXCEPT !.committed = FALSE]
                    /\ UNCHANGED durable
    /\ UNCHANGED <<now, history>>

\* handleReveal of page.tsx: the bid is read from zk_<lot>_<account>, checked
\* against its own commitment and sent to reveal_bid; the entry is removed
\* once the transaction went through.
handleReveal ==
    /\ client.pc = "idle"
    /\ \E account \in Accounts, lot_id \in Listed :
        LET bid == client.zk[<<account, lot_id>>]
            c == [client EXCEPT !.page = "page.tsx", !.account = account,
                                !.lot_id = lot_id, !.calls = << >>]
            err == reveal_bid_err(account, lot_id, bid.amount, bid.secret)
        IN  /\ isAuctionActive(lots[lot_id])
            /\ bid.set
            /\ computeCommitment(bid.secret, bid.amount, lot_id, account)
                   = bid.commitment
            /\ IF err = "ok"
               THEN /\ reveal_bid_writes(account, lot_id, bid.amount, bid.secret)
                    /\ client' = [c EXCEPT !.zk[<<account, lot_id>>] = NoBid,
                                           !.revealed = TRUE,
                                           !.selectedLotInfo =
                                               LotObject(lot_id, lots'[lot_id])]
               ELSE /\ res' = Reverted("reveal_bid", lot_id, err)
                    /\ client' = c
                    /\ UNCHANGED <<durable, history>>
    /\ UNCHANGED now

\* handleReveal of page copy.tsx: revealCalls sends the amount and the nonce
\* of the form.
handleReveal_copy ==
    /\ client.pc = "idle"
    /\ client.page = "page copy.tsx"
    /\ client.committed /\ ~client.revealed
    /\ isAuctionActive(lots[client.lot_id])
    /\ LET err == reveal_bid_err(client.account, client.lot_id, client.amount,
                                 client.nonce)
       IN  IF err = "ok"
           THEN /\ reveal_bid_writes(client.account, client.lot_id,
                                     client.amount, client.nonce)
                /\ client' = [client EXCEPT !.revealed = TRUE]
           ELSE /\ res' = Reverted("reveal_bid", client.lot_id, err)
                /\ UNCHANGED <<durable, history, client>>
    /\ UNCHANGED now

\* The owner creates lots and the bidders commit and reveal through the
\* pages.
NextClient ==
    \/ create_lot
    \/ Tick
    \/ handleCommit
    \/ handleCommit_session
    \/ executeTransaction
    \/ handleCommit_copy
    \/ handleReveal
    \/ handleReveal_copy

SpecClient == Init /\ [][NextClient]_vars

\* ------------------------------------------------- finalization by the page
\* The owner selects a lot and finalizes it with handleFinalizeWithZK of
\* page.tsx while the bidders go on revealing.

\* handleSelectLot of page.tsx, taken together with the fetchAllLots that
\* read the lot object it is given: selectedLotInfo is what get_lot_info
\* returned at that moment.
\* The effect of page.tsx on activeAccountAddress and selectedLotId: with an
\* account and a lot it starts verifyAndRestore for them, and nothing cancels
\* the calls started before.
Effect(c) ==
    IF c.account = Zero \/ c.lot_id = 0 THEN c
    ELSE [c EXCEPT !.pending = @ \cup {<<c.lot_id, c.account>>}]

handleSelectLot ==
    /\ client.pc = "idle"
    /\ \E lot \in Listed :
        LET c == [client EXCEPT !.page = "page.tsx", !.lot_id = lot,
                                !.selectedLotInfo = LotObject(lot, get_lot_info(lot)),
                                !.revealed = FALSE]
        IN  client' = IF lot # client.lot_id THEN Effect(c) ELSE c
    /\ UNCHANGED <<durable, now, res, history>>

\* handleFinalizeWithZK of page.tsx up to the request to the proof backend:
\* it returns at once when no lot is selected, when the account is not the
\* owner, when the selected lot is shown as finalized or when bids_<lot> is
\* empty.
handleFinalizeWithZK ==
    /\ client.pc = "idle"
    /\ client.selectedLotInfo.set
    /\ \E account \in Accounts :
        LET isOwner == account = owner
            selectedLotId == client.selectedLotInfo.id
            allBids == client.bids[selectedLotId]
        IN  /\ isOwner
            /\ ~client.selectedLotInfo.finalizado
            /\ Len(allBids) # 0
            /\ client' = [client EXCEPT !.page = "page.tsx", !.pc = "proof",
                                        !.account = account,
                                        !.lot_id = selectedLotId,
                                        !.calls = << >>]
    /\ UNCHANGED <<durable, now, res, history>>

\* The rest of handleFinalizeWithZK: once the backend answered, the winner
\* and the amount are taken from selectedLotInfo and sent to
\* finalize_with_zk; after a successful transaction the lot is read again.
\* A failed request, a lot shown without a winner and a reverted
\* transaction end the handler in its catch.
handleFinalizeWithZK_send ==
    /\ client.pc = "proof"
    /\ \E response_ok \in BOOLEAN, verdict \in Verdicts :
        LET winner == client.selectedLotInfo.mejor_postor
            winnerAmount == client.selectedLotInfo.mejor_puja
            err == finalize_with_zk_err(client.account, client.lot_id, verdict)
        IN  IF ~response_ok \/ winner = Zero \/ winnerAmount = 0
            THEN /\ client' = [client EXCEPT !.pc = "idle"]
                 /\ UNCHANGED <<durable, res, history>>
            ELSE IF err = "ok"
            THEN /\ finalize_with_zk_writes(client.account, client.lot_id,
                                            winner, winnerAmount, verdict)
                 /\ client' = [client EXCEPT
                        !.pc = "idle",
                        !.selectedLotInfo =
                            LotObject(client.lot_id, lots'[client.lot_id])]
            ELSE /\ res' = Reverted("finalize_with_zk", client.lot_id, err)
                 /\ client' = [client EXCEPT !.pc = "idle"]
                 /\ UNCHANGED <<durable, history>>
    /\ UNCHANGED now

\* The owner creates a lot and sets the verifier, the bidders commit through
\* the page and reveal, and the owner finalizes through the page.
NextFinalize ==
    \/ create_lot
    \/ set_auction_verifier
    \/ Tick
    \/ handleCommit
    \/ handleCommit_session
    \/ executeTransaction
    \/ reveal_bid
    \/ handleSelectLot
    \/ handleFinalizeWithZK
    \/ handleFinalizeWithZK_send

SpecFinalize == Init /\ [][NextFinalize]_vars

\* ------------------------------------------------- restoring the bid shown
\* The user selects lots and switches accounts in page.tsx, and the page
\* restores the bid it shows from localStorage.

\* activeAccountAddress changes: the effect above starts verifyAndRestore for
\* the new account, and the effect that clears the account's state runs.
switchAccount ==
    /\ client.pc = "idle"
    /\ \E account \in Accounts \ {client.account}, random \in CommitNonces :
        client' = Effect([client EXCEPT !.page = "page.tsx",
                                        !.account = account,
                                        !.committed = FALSE, !.revealed = FALSE,
                                        !.commitment = 0, !.amount = 0,
                                        !.nonce = random])
    /\ UNCHANGED <<durable, now, res, history>>

\* A call of verifyAndRestore completes: checkIfUserParticipated has looked
\* the account it was started for up in the roster of its lot, and the bid
\* of zk_<lot>_<account> is put into the form when there is one and the
\* account took part; otherwise the form is cleared.
verifyAndRestore ==
    /\ \E call \in client.pending, random \in CommitNonces :
        LET selectedLotId == call[1]
            activeAccountAddress == call[2]
            participated == already_exists(selectedLotId, activeAccountAddress)
            storedData == client.zk[<<activeAccountAddress, selectedLotId>>]
            c == [client EXCEPT !.pending = @ \ {call}]
        IN  client' =
                IF storedData.set /\ participated
                THEN [c EXCEPT !.committed = TRUE,
                               !.amount = storedData.amount,
                               !.nonce = storedData.secret,
                               !.commitment = storedData.commitment]
                ELSE [c EXCEPT !.committed = FALSE, !.amount = 0,
                               !.nonce = random, !.commitment = 0]
    /\ UNCHANGED <<durable, now, res, history>>

\* handleCommit run for the account that is connected on the lot that is
\* selected.
handleCommit_selected ==
    /\ handleCommit
    /\ client'.account = client.account
    /\ client'.lot_id = client.lot_id

\* The owner creates a lot; the users select the lot, switch accounts and
\* commit through the page with the account and the lot they selected.
NextRestore ==
    \/ create_lot
    \/ Tick
    \/ handleCommit_selected
    \/ handleCommit_session
    \/ executeTransaction
    \/ handleSelectLot
    \/ switchAccount
    \/ verifyAndRestore

SpecRestore == Init /\ [][NextRestore]_vars
\* ================================================================== claims

\* The error kind the specification gives each panic message of the contract.
ErrorKind(msg) ==
    CASE msg = "Not owner" -> "Unauthorized"
      [] msg = "Only winner can pay" -> "Unauthorized"
      [] msg = "Lot already exists" -> "LotExists"
      [] msg = "Lot does not exist" -> "LotNotFound"
      [] msg = "Lot already finalized" -> "AlreadyFinalized"
      [] msg = "Already finalized" -> "AlreadyFinalized"
      [] msg = "Lot not finalized" -> "NotFinalized"
      [] msg = "Auction ended" -> "WindowClosed"
      [] msg = "Commitment mismatch" -> "CommitmentMismatch"
      [] msg = "Payment already done" -> "AlreadyPaid"
      [] msg = "Verifier not set" -> "VerifierNotConfigured"
      [] msg = "Payment verifier not set" -> "VerifierNotConfigured"
      [] msg = "Proof verification failed" -> "ProofRejected"
      [] msg = "Payment proof failed" -> "ProofRejected"
      [] OTHER -> msg

\* The last transaction went through and was a call of op.
Did(op) == res.op = op /\ res.err = "ok"

\* The verifier did not accept the proof: its call failed, or it returned
\* Option::None.
Rejections == {"Err", "OkNone"}

\* The PaymentVerified events of a lot.
PaymentEvents(lot_id) ==
    {i \in 1..Len(events) : events[i][1] = "PaymentVerified" /\ events[i][2] = lot_id}

\* C1: at most one finalize call (finalize_lot or finalize_with_zk) ever
\* succeeds for a lot id: a finalize call that goes through is never on a lot
\* id for which a finalize call went through before.
C1_OneFinalizePerLot ==
    [][(Did("finalize_lot")' \/ Did("finalize_with_zk")') => res'.lot_id \notin finalize_ok]_vars

\* C2: once finalizado is true for a lot id, it stays true after every
\* operation, create_lot with that lot id included.
C2_FinalizedStays ==
    [][\A l \in LotIds : lots[l].finalizado => lots'[l].finalizado]_vars

\* C3 as stated: on a non-finalized lot on which reveals succeeded,
\* mejor_puja is the highest amount revealed so far and mejor_postor the
\* first bidder that revealed it.
C3_FirstMaxAsStated ==
    \A l \in LotIds :
        (~lots[l].finalizado /\ revealed[l].any)
            => /\ lots[l].mejor_puja = revealed[l].amount
               /\ lots[l].mejor_postor = revealed[l].first

\* C3 as amended: on a non-finalized lot mejor_puja is the highest amount
\* revealed so far (0 when there is none); when that amount is positive
\* mejor_postor is the first bidder that revealed it, and while no positive
\* amount was revealed mejor_postor stays the zero address.
C3_FirstMax ==
    \A l \in LotIds :
        ~lots[l].finalizado
            => /\ lots[l].mejor_puja = revealed[l].amount
               /\ lots[l].mejor_postor =
                      IF revealed[l].amount > 0 THEN revealed[l].first ELSE Zero

\* C3's case: a reveal just tied the positive best amount of another bidder,
\* who is still the best bidder.
C3_Witness ==
    /\ Did("reveal_bid")
    /\ ~lots[res.lot_id].finalizado
    /\ res.amount > 0
    /\ res.amount = lots[res.lot_id].mejor_puja
    /\ res.caller # lots[res.lot_id].mejor_postor

\* A created, non-finalized lot whose window is open.
C4_Open(l) ==
    /\ l \in created
    /\ ~lots[l].finalizado
    /\ now < lots[l].start_time + lots[l].duration

\* On such a lot reveal_bid passes its asserts exactly when the hash of its
\* arguments is the stored commitment.
C4_Iff ==
    \A caller \in Accounts, l \in LotIds, amount \in Amounts, nonce \in Nonces :
        C4_Open(l)
            => ((reveal_bid_err(caller, l, amount, nonce) = "ok")
                <=> (commit_hash(nonce, amount, l, caller) = commitments[<<caller, l>>]))

\* A reveal that went through was on such a lot and matched the commitment
\* stored before it.
C4_Step ==
    Did("reveal_bid")'
        => /\ C4_Open(res'.lot_id)
           /\ commit_hash(res'.felt, res'.amount, res'.lot_id, res'.caller)
                  = commitments[<<res'.caller, res'.lot_id>>]

\* C4: on a created, non-finalized lot whose window is open, reveal_bid goes
\* through exactly when the hash of (nonce, amount, lot_id, caller) is the
\* commitment stored for (caller, lot_id), and every reveal that went through
\* was on such a lot and matched the commitment stored before it.
C4_RevealIff == []C4_Iff /\ [][C4_Step]_vars

\* C4's case: a bidder whose commitment is stored on an open lot has
\* revealed it, and another reveal of that bidder would not match.
C4_Witness ==
    /\ Did("reveal_bid")
    /\ C4_Open(res.lot_id)
    /\ \E amount \in Amounts, nonce \in Nonces :
           reveal_bid_err(res.caller, res.lot_id, amount, nonce) = "Commitment mismatch"

\* Each lot has one PaymentVerified event when payment_done is set and none
\* before, and once it is set verify_payment of the winner fails with
\* AlreadyPaid whatever the verifier would answer.
C5_Once ==
    \A l \in LotIds :
        /\ Cardinality(PaymentEvents(l)) = (IF payment_done[l] THEN 1 ELSE 0)
        /\ payment_done[l]
            => \A verdict \in Verdicts :
                   ErrorKind(verify_payment_err(lots[l].mejor_postor, l, verdict))
                       = "AlreadyPaid"

\* C5: payment_done of a lot goes from false to true at most once and is
\* never reset: verify_payment is accepted at most once per lot, and every
\* further verify_payment of the winner with an accepted proof fails with
\* AlreadyPaid.
C5_PaidOnce ==
    /\ []C5_Once
    /\ [][\A l \in LotIds : payment_done[l] => payment_done'[l]]_vars

\* C5's case: a payment was accepted, the payment verifier is still set, and
\* a further call was made and reverted.
C5_Witness ==
    \E l \in LotIds :
        /\ payment_done[l]
        /\ payment_verifier # Zero
        /\ res.err = "reverted"

\* C6: a reverted transaction leaves the storage and the event log as they
\* were.
C6_RevertChangesNothing ==
    [][res'.err = "reverted" => durable' = durable]_vars

\* C6's case: a call reverted on a lot that has bidders and a best bid.
C6_Witness ==
    /\ res.err = "reverted"
    /\ \E l \in LotIds : bidders_count[l] > 0 /\ lots[l].mejor_postor # Zero

\* C7: finalize_with_zk never goes through when the verifier did not accept
\* the proof.
C7_RejectedProofFails ==
    ~(Did("finalize_with_zk") /\ res.verdict \in Rejections)

\* C8: the winner record of a lot changes only in a step in which the lot
\* becomes finalized, only from its unwritten value, and never afterwards.
C8_WinnerRecordOnce ==
    [][\A l \in LotIds :
          winner_record'[l] # winner_record[l]
              => /\ ~lots[l].finalizado
                 /\ lots'[l].finalizado
                 /\ winner_record[l] = <<Zero, 0>>]_vars

\* C8's case: a winner record was written, and a later operation (the
\* payment of the winner) went through.
C8_Witness ==
    \E l \in LotIds : winner_record[l] # <<Zero, 0>> /\ payment_done[l]

\* C9: create_lot never goes through for a lot id for which a create_lot
\* went through before.
C9_LotIdNeverReused ==
    [][Did("create_lot")' => res'.lot_id \notin created]_vars

\* C10: finalize_lot never goes through for a lot id that was never created.
C10_FinalizeNeedsLot ==
    [][Did("finalize_lot")' => res'.lot_id \in created]_vars

\* The entry points that begin with the 'Not owner' assert.
OwnerGated ==
    {"create_lot", "finalize_lot", "finalize_with_zk",
     "set_auction_verifier", "set_payment_verifier"}

\* Whatever the other arguments and the state, a call of an owner-gated entry
\* point by an account other than the constructor's owner fails with
\* Unauthorized.
C11_OthersFail ==
    \A caller \in Accounts \ {Owner} :
        /\ ErrorKind(set_verifier_err(caller)) = "Unauthorized"
        /\ \A l \in LotIds :
               /\ ErrorKind(create_lot_err(caller, l)) = "Unauthorized"
               /\ ErrorKind(finalize_lot_err(caller, l)) = "Unauthorized"
               /\ \A verdict \in Verdicts :
                      ErrorKind(finalize_with_zk_err(caller, l, verdict)) = "Unauthorized"

\* C11: the owner is the constructor's argument for ever; every call of
\* create_lot, finalize_lot, finalize_with_zk, set_auction_verifier or
\* set_payment_verifier that goes through was made by it, and such a call by
\* any other account fails with Unauthorized.
C11_OwnerOnly ==
    /\ [](owner = Owner /\ C11_OthersFail)
    /\ [][(res'.err = "ok" /\ res'.op \in OwnerGated) => res'.caller = Owner]_vars

\* C11's case: both verifiers were set and lots created, a finalize_with_zk
\* of the owner just went through, and other accounts have called since the
\* construction (a bidder committed).
C11_Witness ==
    /\ Did("finalize_with_zk")
    /\ res.caller = Owner
    /\ payment_verifier # Zero
    /\ \E l \in LotIds : bidders_count[l] > 0

\* The winner stored in the winner record of a lot (the zero address while
\* none was written).
RecordedWinner(l) == winner_record[l][1]

\* verify_payment passes its asserts only on a created, finalized lot and for
\* the recorded winner; on an existing lot it fails with NotFinalized before
\* the finalization and with Unauthorized for every caller that is not the
\* recorded winner (every caller, when no winner was recorded); payment_done
\* is set only on finalized lots with a recorded winner.
C12_Gate ==
    \A l \in LotIds :
        /\ payment_done[l] => (lots[l].finalizado /\ RecordedWinner(l) # Zero)
        /\ \A caller \in Accounts, verdict \in Verdicts :
               LET err == verify_payment_err(caller, l, verdict)
               IN  /\ err = "ok"
                       => /\ l \in created
                          /\ lots[l].finalizado
                          /\ caller = RecordedWinner(l)
                   /\ (lots[l].productor # Zero /\ ~lots[l].finalizado)
                       => ErrorKind(err) = "NotFinalized"
                   /\ (lots[l].productor # Zero /\ lots[l].finalizado
                          /\ caller # RecordedWinner(l))
                       => ErrorKind(err) = "Unauthorized"

\* C12: verify_payment goes through only on a created, finalized lot and
\* only for the winner of the lot's winner record; before the finalization
\* it fails with NotFinalized, and on a lot finalized with no winner or for
\* any other caller it fails with Unauthorized; payment_done changes only in
\* a verify_payment that went through.
C12_OnlyRecordedWinnerPays ==
    /\ []C12_Gate
    /\ [][\A l \in LotIds :
             payment_done'[l] # payment_done[l]
                 => /\ Did("verify_payment")' /\ res'.lot_id = l
                    /\ lots[l].finalizado
                    /\ res'.caller = RecordedWinner(l)]_vars

\* C12's case: the recorded winner of a finalized lot just paid, and the
\* other accounts could not have.
C12_Witness ==
    /\ Did("verify_payment")
    /\ res.caller = RecordedWinner(res.lot_id)
    /\ payment_done[res.lot_id]
    /\ \E caller \in Accounts : caller # res.caller

\* verify_payment gets as far as call_contract_syscall: every assert before
\* it passed, so what the verifier gives back decides how the call ends.
CallsPaymentVerifier(caller, l) ==
    verify_payment_err(caller, l, "Err") = "Payment proof failed"

\* C13 as stated: once verify_payment went through for a lot, every
\* verify_payment on that lot, whoever calls it, fails with AlreadyPaid
\* without calling the payment verifier.
C13_AlreadyPaidForAll ==
    \A l \in LotIds :
        payment_done[l]
            => \A caller \in Accounts :
                   /\ ~CallsPaymentVerifier(caller, l)
                   /\ \A verdict \in Verdicts :
                          ErrorKind(verify_payment_err(caller, l, verdict)) = "AlreadyPaid"

\* C13 as amended: once verify_payment went through for a lot, every
\* verify_payment on that lot fails without calling the payment verifier:
\* with AlreadyPaid when the recorded winner calls, with Unauthorized when
\* anyone else does.
C13_NoSecondPayment ==
    \A l \in LotIds :
        payment_done[l]
            => \A caller \in Accounts :
                   /\ ~CallsPaymentVerifier(caller, l)
                   /\ \A verdict \in Verdicts :
                          ErrorKind(verify_payment_err(caller, l, verdict))
                              = IF caller = RecordedWinner(l)
                                THEN "AlreadyPaid" ELSE "Unauthorized"

\* C13's case: a lot is paid, the payment verifier is still set, and a later
\* call reverted while an account other than the winner exists.
C13_Witness ==
    \E l \in LotIds :
        /\ payment_done[l]
        /\ PaymentEvents(l) # {}
        /\ res.err = "reverted"
        /\ payment_verifier # Zero
        /\ \E caller \in Accounts : caller # RecordedWinner(l)

\* C14: a lot whose payment_done is set was created and is finalized, and no
\* step takes a finalized lot back to non-finalized or a paid lot back to
\* unpaid.
C14_ForwardOnly ==
    /\ [](\A l \in LotIds : payment_done[l] => (l \in created /\ lots[l].finalizado))
    /\ [][\A l \in LotIds :
             /\ lots[l].finalizado => lots'[l].finalizado
             /\ payment_done[l] => payment_done'[l]]_vars

\* start_time + duration of a lot.
window_end(l) == lots[l].start_time + lots[l].duration

\* reveal_bid never passes its asserts on a finalized lot or at or after the
\* end of the window; on an existing lot it fails with AlreadyFinalized when
\* the lot is finalized (whatever the time) and with WindowClosed when the
\* lot is not finalized and now >= window_end; one second before window_end a
\* reveal that matches the stored commitment passes on a non-finalized lot.
C15_Window ==
    \A caller \in Accounts, l \in LotIds, amount \in Amounts, nonce \in Nonces :
        LET err == reveal_bid_err(caller, l, amount, nonce)
        IN  /\ (lots[l].finalizado \/ now >= window_end(l)) => err # "ok"
            /\ (lots[l].productor # Zero /\ lots[l].finalizado)
                => ErrorKind(err) = "AlreadyFinalized"
            /\ (lots[l].productor # Zero /\ ~lots[l].finalizado /\ now >= window_end(l))
                => ErrorKind(err) = "WindowClosed"
            /\ (lots[l].productor # Zero /\ ~lots[l].finalizado
                   /\ now = window_end(l) - 1
                   /\ commit_hash(nonce, amount, l, caller) = commitments[<<caller, l>>])
                => err = "ok"

\* C15: reveal_bid fails with AlreadyFinalized on a finalized lot and with
\* WindowClosed at or after start_time + duration, so a reveal that goes
\* through, the only reveal that can change mejor_puja and mejor_postor, is
\* on a non-finalized lot before window_end; at window_end - 1 a matching
\* reveal on a non-finalized lot is accepted.
C15_RevealWindow ==
    /\ []C15_Window
    /\ [][Did("reveal_bid")'
             => /\ ~lots[res'.lot_id].finalizado
                /\ now < window_end(res'.lot_id)]_vars

\* C15's case: a reveal was accepted in the last second of the window and
\* set the best bid; now the window is over, the lot is not finalized, and a
\* reveal that matches a stored commitment fails with 'Auction ended'.
C15_Witness ==
    \E l \in LotIds :
        /\ ~lots[l].finalizado
        /\ now = window_end(l)
        /\ lots[l].mejor_postor # Zero
        /\ res.err = "reverted"
        /\ \E caller \in Accounts, amount \in Amounts, nonce \in Nonces :
               /\ commit_hash(nonce, amount, l, caller) = commitments[<<caller, l>>]
               /\ reveal_bid_err(caller, l, amount, nonce) = "Auction ended"

\* The bidder roster of a lot: bidder_at[(l, 0)] .. bidder_at[(l, count - 1)].
Roster(l) == [i \in 0..(bidders_count[l] - 1) |-> bidder_at[<<l, i>>]]

\* commit_bid fails on a lot id with no productor, on a finalized lot and at
\* or after the end of the window.
C16_Rejects ==
    \A l \in LotIds :
        (lots[l].productor = Zero \/ lots[l].finalizado \/ now >= window_end(l))
            => ErrorKind(commit_bid_err(l))
                   \in {"LotNotFound", "AlreadyFinalized", "WindowClosed"}

\* C16: commit_bid fails on a missing lot, on a finalized lot and at or after
\* window_end, so once a finalize call went through for a lot its
\* commitments and its bidder roster never change again.
C16_FrozenOnceFinalized ==
    /\ []C16_Rejects
    /\ [][\A l \in finalize_ok :
             /\ \A caller \in Accounts :
                    commitments'[<<caller, l>>] = commitments[<<caller, l>>]
             /\ Roster(l)' = Roster(l)]_vars

\* The written positions of bidder_at are 0 .. count-1 of each lot, and no
\* two positions of a lot hold the same identity.
C17_Distinct ==
    /\ DOMAIN bidder_at =
           {k \in LotIds \X (0..(MaxAccount - 1)) : k[2] < bidders_count[k[1]]}
    /\ \A l \in LotIds :
           \A i, j \in DOMAIN Roster(l) : i # j => Roster(l)[i] # Roster(l)[j]

\* In a step the roster of a lot is left as it is or gets one more position
\* at its end; it grows only in a commit_bid on that lot that went through,
\* by the caller, who was not in it; after a commit_bid that went through
\* the caller is in it.
C17_Append ==
    /\ \A l \in LotIds :
           /\ bidders_count'[l] >= bidders_count[l]
           /\ \A i \in DOMAIN Roster(l) : Roster(l)'[i] = Roster(l)[i]
           /\ bidders_count'[l] # bidders_count[l]
               => /\ bidders_count'[l] = bidders_count[l] + 1
                  /\ Did("commit_bid")' /\ res'.lot_id = l
                  /\ Roster(l)'[bidders_count[l]] = res'.caller
                  /\ ~already_exists(l, res'.caller)
    /\ Did("commit_bid")'
           => \E l \in LotIds :
                  /\ res'.lot_id = l
                  /\ \E i \in DOMAIN Roster(l)' : Roster(l)'[i] = res'.caller

\* C17: the bidder roster of each lot is append-only and without duplicates:
\* positions 0..count-1 hold pairwise distinct identities, a first commit
\* appends its caller at position count, a later commit of the same caller
\* changes nothing of the roster, no position is overwritten and count never
\* decreases.
C17_RosterAppendOnly == []C17_Distinct /\ [][C17_Append]_vars

\* C17's case: two bidders are in the roster of a lot and the one at
\* position 0 just committed again.
C17_Witness ==
    /\ Did("commit_bid")
    /\ bidders_count[res.lot_id] = 2
    /\ bidder_at[<<res.lot_id, 0>>] = res.caller

\* C18: on an existing, non-finalized lot whose window is open, reveal_bid of
\* an account that never committed on the lot (it is not in the roster)
\* fails with NoCommitment, a kind other than CommitmentMismatch, whatever the
\* amount and the nonce.
C18_NoCommitmentKind ==
    \A caller \in Accounts, l \in LotIds :
        (lots[l].productor # Zero /\ ~lots[l].finalizado /\ now < window_end(l)
           /\ ~already_exists(l, caller))
            => \A amount \in Amounts, nonce \in Nonces :
                   ErrorKind(reveal_bid_err(caller, l, amount, nonce)) = "NoCommitment"

\* C19: a finalize_with_zk that goes through (the verifier call returned)
\* leaves the lot finalized with mejor_postor and mejor_puja set to the
\* declared winner and amount and its other fields as they were, writes
\* (winner, winner_amount) to the winner record, and appends one
\* AuctionFinalized event that carries the lot id and these values, whatever
\* the reveals had left in the lot.
C19_DeclaredWinnerWritten ==
    [][Did("finalize_with_zk")'
          => \E l \in LotIds :
                 /\ res'.lot_id = l
                 /\ lots'[l] = [lots[l] EXCEPT !.finalizado = TRUE,
                                               !.mejor_postor = res'.addr,
                                               !.mejor_puja = res'.amount]
                 /\ winner_record'[l] = <<res'.addr, res'.amount>>
                 /\ events' = Append(events,
                        <<"AuctionFinalized", l, res'.addr, res'.amount>>)]_vars

\* C19's case: the verifier accepted, and the declared winner and amount
\* that were written differ from the first bidder and the amount of the
\* highest reveal on the lot.
C19_Witness ==
    /\ Did("finalize_with_zk")
    /\ res.verdict = "OkSome"
    /\ revealed[res.lot_id].any
    /\ revealed[res.lot_id].amount > 0
    /\ lots[res.lot_id].mejor_postor # revealed[res.lot_id].first
    /\ lots[res.lot_id].mejor_puja # revealed[res.lot_id].amount

\* C20 as stated: mejor_puja of a lot never decreases in a step, whatever the
\* operation (reveals and both finalize paths included).
C20_NeverDecreases ==
    [][\A l \in LotIds : lots'[l].mejor_puja >= lots[l].mejor_puja]_vars

\* C20 as amended: mejor_puja of a lot never decreases in a reveal_bid, a
\* finalize_lot or any other step but one: a finalize_with_zk on that lot
\* that went through, which sets it to the declared amount.
C20_DecreasesOnlyByDeclaration ==
    [][\A l \in LotIds :
          lots'[l].mejor_puja < lots[l].mejor_puja
              => /\ Did("finalize_with_zk")'
                 /\ res'.lot_id = l
                 /\ lots'[l].mejor_puja = res'.amount]_vars

\* C20's case: a reveal of less than the best amount went through and left
\* the best amount as it was.
C20_Witness ==
    /\ Did("reveal_bid")
    /\ ~lots[res.lot_id].finalizado
    /\ res.amount < lots[res.lot_id].mejor_puja

\* C21: a finalize_lot that goes through sets finalizado and nothing else of
\* the lot; on a lot with no best bidder (no reveal went through, or only
\* reveals of 0) it leaves the winner record and the event log as they were;
\* on a lot with a best bidder it writes (mejor_postor, mejor_puja) to the
\* winner record and appends exactly one WinnerRecorded event with the lot id
\* and those values.
C21_PlainFinalize ==
    [][Did("finalize_lot")'
          => \E l \in LotIds :
                 /\ res'.lot_id = l
                 /\ lots' = [lots EXCEPT ![l].finalizado = TRUE]
                 /\ ~revealed[l].any => lots[l].mejor_postor = Zero
                 /\ IF lots[l].mejor_postor = Zero
                    THEN winner_record' = winner_record /\ events' = events
                    ELSE /\ winner_record' = [winner_record EXCEPT ![l] =
                                <<lots[l].mejor_postor, lots[l].mejor_puja>>]
                         /\ events' = Append(events,
                                <<"WinnerRecorded", l, lots[l].mejor_postor,
                                  lots[l].mejor_puja>>)]_vars

\* C21's case: finalize_lot just went through on a lot with a best bidder,
\* and the last event is the WinnerRecorded event of that lot.
C21_Witness ==
    /\ Did("finalize_lot")
    /\ lots[res.lot_id].mejor_postor # Zero
    /\ Len(events) > 0
    /\ events[Len(events)] = <<"WinnerRecorded", res.lot_id,
                                lots[res.lot_id].mejor_postor, lots[res.lot_id].mejor_puja>>

\* C22: on an existing, non-finalized lot finalize_lot of the owner passes
\* its asserts whatever the block timestamp, before window_end as well as
\* after it.
C22_FinalizeAnyTime ==
    \A l \in LotIds :
        (lots[l].productor # Zero /\ ~lots[l].finalizado)
            => finalize_lot_err(owner, l) = "ok"

\* C22's case: finalize_lot just went through on an existing lot that has a
\* bidder while its window is still open.
C22_Witness ==
    /\ Did("finalize_lot")
    /\ lots[res.lot_id].productor # Zero
    /\ bidders_count[res.lot_id] > 0
    /\ now < window_end(res.lot_id)

\* While auction_verifier is the zero address finalize_with_zk never passes
\* its asserts, and fails with VerifierNotConfigured when the asserts before
\* that one pass (owner, existing lot, not finalized); the same for
\* verify_payment and payment_verifier (existing finalized lot, the winner
\* calls, not paid yet).
C23_Unset ==
    \A l \in LotIds, caller \in Accounts, verdict \in Verdicts :
        /\ auction_verifier = Zero
            => /\ finalize_with_zk_err(caller, l, verdict) # "ok"
               /\ (caller = owner /\ lots[l].productor # Zero /\ ~lots[l].finalizado)
                   => ErrorKind(finalize_with_zk_err(caller, l, verdict))
                          = "VerifierNotConfigured"
        /\ payment_verifier = Zero
            => /\ verify_payment_err(caller, l, verdict) # "ok"
               /\ (lots[l].productor # Zero /\ lots[l].finalizado
                      /\ caller = lots[l].mejor_postor /\ ~payment_done[l])
                   => ErrorKind(verify_payment_err(caller, l, verdict))
                          = "VerifierNotConfigured"

\* C23: finalize_with_zk fails with VerifierNotConfigured while
\* auction_verifier is unset and verify_payment fails with
\* VerifierNotConfigured while payment_verifier is unset, and each verifier
\* slot is written only by its own setter.
C23_VerifiersIndependent ==
    /\ []C23_Unset
    /\ [][/\ auction_verifier' # auction_verifier => Did("set_auction_verifier")'
          /\ payment_verifier' # payment_verifier => Did("set_payment_verifier")']_vars

\* C23's case: the auction verifier is set and was used to finalize a lot
\* with a winner, the payment verifier is not set, and a call just failed
\* while the payment of the winner fails with 'Payment verifier not set'.
C23_Witness ==
    /\ auction_verifier # Zero
    /\ payment_verifier = Zero
    /\ res.err = "reverted"
    /\ \E l \in LotIds :
           /\ lots[l].mejor_postor \in Accounts
           /\ verify_payment_err(lots[l].mejor_postor, l, "OkSome")
                  = "Payment verifier not set"

\* The fields of a lot that describe it.
Descriptive(lot) ==
    <<lot.productor, lot.raza, lot.peso_inicial, lot.cantidad_animales,
      lot.metadata_uri, lot.start_time, lot.duration>>

\* C24: the descriptive fields of a lot change only in a create_lot on that
\* lot id that went through: commit_bid, reveal_bid, finalize_lot,
\* finalize_with_zk and verify_payment leave them as they were; and a
\* reveal_bid that goes through changes nothing of the storage but
\* mejor_puja and mejor_postor of its lot.
C24_DescriptiveFixed ==
    [][/\ \A l \in LotIds :
             Descriptive(lots'[l]) # Descriptive(lots[l])
                 => (Did("create_lot")' /\ res'.lot_id = l)
       /\ Did("reveal_bid")'
             => /\ \A l \in LotIds :
                       /\ lots'[l] = [lots[l] EXCEPT !.mejor_puja = lots'[l].mejor_puja,
                                                     !.mejor_postor = lots'[l].mejor_postor]
                       /\ l # res'.lot_id => lots'[l] = lots[l]
                /\ <<owner, commitments, lot_count, bidders_count, bidder_at,
                      auction_verifier, payment_verifier, payment_done,
                      winner_record, events>>'
                     = <<owner, commitments, lot_count, bidders_count, bidder_at,
                         auction_verifier, payment_verifier, payment_done,
                         winner_record, events>>]_vars

\* C24's case: a reveal just took the best bid of an existing lot.
C24_Witness ==
    /\ Did("reveal_bid")
    /\ lots[res.lot_id].productor # Zero
    /\ res.amount > 0
    /\ lots[res.lot_id].mejor_postor = res.caller
    /\ lots[res.lot_id].mejor_puja = res.amount

\* C25: a commit_bid that goes through stores its commitment for (caller,
\* lot_id) and nothing else in commitments; when the caller is in the roster
\* already it leaves the roster as it was; and afterwards reveal_bid of the
\* caller on that lot passes exactly with values that hash to the new
\* commitment, and fails with CommitmentMismatch with any others, those of
\* a replaced commitment included.
C25_Recommit ==
    [][Did("commit_bid")'
          => \E c \in Accounts, l \in LotIds :
                 /\ res'.caller = c /\ res'.lot_id = l
                 /\ commitments' = [commitments EXCEPT ![<<c, l>>] = res'.felt]
                 /\ already_exists(l, c)
                     => (bidders_count' = bidders_count /\ bidder_at' = bidder_at)
                 /\ \A amount \in Amounts, nonce \in Nonces :
                        reveal_bid_err(c, l, amount, nonce)' =
                            IF commit_hash(nonce, amount, l, c) = res'.felt
                            THEN "ok" ELSE "Commitment mismatch"]_vars

\* C25's case: the best bidder of an open lot, who revealed the best
\* amount, just committed again, and the stored commitment is no longer one
\* of that amount.
C25_Witness ==
    /\ Did("commit_bid")
    /\ ~lots[res.lot_id].finalizado
    /\ lots[res.lot_id].mejor_postor = res.caller
    /\ \A nonce \in Nonces :
           commit_hash(nonce, lots[res.lot_id].mejor_puja, res.lot_id, res.caller)
               # commitments[<<res.caller, res.lot_id>>]

\* The finalization events of a lot: WinnerRecorded (finalize_lot) and
\* AuctionFinalized (finalize_with_zk).
FinalizationEvents(lot_id) ==
    {i \in 1..Len(events) :
        /\ events[i][1] \in {"WinnerRecorded", "AuctionFinalized"}
        /\ events[i][2] = lot_id}

\* Each lot has at most one finalization event and at most one payment
\* event; a finalization event carries the winner record of its lot, which
\* is finalized; a payment event is of a paid lot, carries the recorded
\* winner and comes after the finalization event of the lot.
C26_Mirror ==
    \A l \in LotIds :
        /\ Cardinality(FinalizationEvents(l)) <= 1
        /\ Cardinality(PaymentEvents(l)) <= 1
        /\ \A i \in FinalizationEvents(l) :
               /\ lots[l].finalizado
               /\ winner_record[l] = <<events[i][3], events[i][4]>>
        /\ \A j \in PaymentEvents(l) :
               /\ payment_done[l]
               /\ events[j][3] = RecordedWinner(l)
               /\ \E i \in FinalizationEvents(l) : i < j

\* A step leaves the event log as it is or appends one event to it; a step
\* that changes a winner record appends the finalization event of that lot
\* with the values written, a step that sets payment_done appends the
\* PaymentVerified event of that lot with the recorded winner, and an event
\* is appended only in a step that finalizes its lot and writes these values
\* to the winner record, or sets payment_done of its lot.
C26_Step ==
    /\ \A l \in LotIds :
           /\ winner_record'[l] # winner_record[l]
               => \E kind \in {"WinnerRecorded", "AuctionFinalized"} :
                      events' = Append(events,
                          <<kind, l, winner_record'[l][1], winner_record'[l][2]>>)
           /\ payment_done'[l] # payment_done[l]
               => events' = Append(events, <<"PaymentVerified", l, RecordedWinner(l)>>)
    /\ events' # events
           => /\ Len(events') = Len(events) + 1
              /\ SubSeq(events', 1, Len(events)) = events
              /\ LET e == events'[Len(events')]
                     l == e[2]
                 IN  IF e[1] = "PaymentVerified"
                     THEN ~payment_done[l] /\ payment_done'[l]
                     ELSE /\ ~lots[l].finalizado /\ lots'[l].finalizado
                          /\ winner_record'[l] = <<e[3], e[4]>>

\* C26: the event log is append-only and mirrors the state: a finalization
\* event is appended exactly when a winner record is written and carries
\* its winner and amount, a PaymentVerified event exactly when payment_done
\* is set and carries the recorded winner; each lot has at most one of each,
\* and its payment event comes after its finalization.
C26_EventsMirrorState == []C26_Mirror /\ [][C26_Step]_vars

\* C26's case: the log of a lot holds its finalization event and, after it,
\* its payment event.
C26_Witness ==
    \E l \in LotIds :
        /\ FinalizationEvents(l) # {}
        /\ PaymentEvents(l) # {}
        /\ Len(events) >= 2

\* What every query returns for every argument and caller is the same after
\* the step as before it.
C27_SameReturns ==
    /\ get_lot_count' = get_lot_count
    /\ \A l \in LotIds :
        /\ get_winning_bid(l)' = get_winning_bid(l)
        /\ get_lot_info(l)' = get_lot_info(l)
        /\ get_bidders_count(l)' = get_bidders_count(l)
        /\ is_payment_done(l)' = is_payment_done(l)
        /\ get_winner(l)' = get_winner(l)
        /\ \A i \in Indexes : get_bidder_at(l, i)' = get_bidder_at(l, i)
        /\ \A a \in Accounts, x \in Amounts, n \in Nonces :
            debug_reveal(a, l, x, n)' = debug_reveal(a, l, x, n)

\* C27: a call of a query (get_lot_info, get_winning_bid, get_lot_count,
\* get_winner, is_payment_done, get_bidders_count, get_bidder_at,
\* debug_reveal) changes neither the storage nor the event log, and as long
\* as no step changes them (queries, the clock advancing, reverted
\* transactions) every query returns, for the same arguments and caller, the
\* value it returned before.
C27_QueriesPure ==
    [][/\ (res'.op \in Queries) => UNCHANGED durable
       /\ (UNCHANGED durable) => C27_SameReturns]_vars

\* C27 witness: get_winner was called on a lot whose winner is recorded, after
\* the same query was possible on the empty record.
C27_Witness ==
    /\ res.op = "get_winner"
    /\ get_winner(res.lot_id) # <<Zero, 0>>
    /\ get_lot_info(res.lot_id).finalizado
    /\ now > 0

\* What the contract stores for one lot id: the lot record, the commitments,
\* the roster, the winner record and the payment flag.
C28_Lot(m) ==
    <<lots[m], [a \in Accounts |-> commitments[<<a, m>>]], Roster(m),
      winner_record[m], payment_done[m]>>

\* How the next call on one lot id would end, for every caller and argument:
\* the asserts of create_lot, commit_bid, reveal_bid and finalize_lot, and
\* whether commit_bid finds the caller in the roster.
C28_Outcomes(m) ==
    <<commit_bid_err(m),
      [a \in Accounts |->
          <<create_lot_err(a, m), already_exists(m, a), finalize_lot_err(a, m)>>],
      [a \in Accounts, x \in Amounts, n \in Nonces |-> reveal_bid_err(a, m, x, n)]>>

C29_ClientCommitReveals ==
    (res.op = "commit_bid" /\ client.pc = "idle" /\ client.committed) =>
        /\ res.felt = commit_hash(client.nonce, client.amount, res.lot_id, res.caller)
        /\ res.felt # preview_hash(client.amount, client.nonce)
        /\ reveal_bid_err(res.caller, res.lot_id, client.amount, client.nonce) = "ok"

\* C30: in every handler of page.tsx a call of registerCurrentSession comes
\* after a call of updateSessionPolicy of the same handler.
C30_PolicyBeforeRegister ==
    \A i \in DOMAIN client.calls :
        client.calls[i] = "registerCurrentSession" =>
            \E j \in 1..(i - 1) : client.calls[j] = "updateSessionPolicy"

\* C31: the stored commitment of a bidder binds the amount: two different
\* amounts never both pass the asserts of reveal_bid against the same stored
\* commitment (with the same secret), so a reveal that goes through carries
\* the very amount the commitment was computed from.
C31_CommitmentBinds ==
    \A a \in Accounts, l \in LotIds, n \in Nonces, x \in Amounts, y \in Amounts :
        (/\ reveal_bid_err(a, l, x, n) = "ok"
         /\ reveal_bid_err(a, l, y, n) = "ok") => x = y

\* C32: a lot becomes finalized through finalize_with_zk, and a payment flag
\* becomes true, only in a step whose verifier call returned a successful
\* verification (Option::Some); on a normal return with an empty result
\* (Option::None) the call fails and nothing changes.
C32_OnlyOnVerification ==
    [][\A l \in LotIds :
          /\ (res'.op = "finalize_with_zk" /\ lots'[l].finalizado /\ ~lots[l].finalizado)
                 => res'.verdict = "OkSome"
          /\ (payment_done'[l] /\ ~payment_done[l]) => res'.verdict = "OkSome"
          /\ (res'.op \in {"finalize_with_zk", "verify_payment"} /\ res'.verdict = "OkNone")
                 => durable' = durable]_vars

\* C33: on a finalized lot that has a winner record, the record is the
\* best bidder and the best amount of the lot record, so the caller that
\* passes the winner check of verify_payment is the winner get_winner
\* returns.
C33_RecordIsBest ==
    \A l \in LotIds :
        (lots[l].finalizado /\ get_winner(l) # <<Zero, 0>>) =>
            /\ get_winner(l) = <<lots[l].mejor_postor, lots[l].mejor_puja>>
            /\ \A caller \in Accounts :
                   (verify_payment_err(caller, l, "OkSome") # "Only winner can pay")
                       <=> (caller = get_winner(l)[1])

\* C33 witness: the winner declared to finalize_with_zk, who is not the first
\* bidder of the highest reveal, has paid.
C33_Witness ==
    \E l \in LotIds :
        /\ Did("verify_payment") /\ res.lot_id = l
        /\ payment_done[l]
        /\ revealed[l].any /\ revealed[l].first # get_winner(l)[1]
        /\ get_winner(l)[1] = res.caller
\* C34: the winner and the amount that handleFinalizeWithZK declares to
\* finalize_with_zk are the lot's mejor_postor and mejor_puja at the moment
\* the transaction executes, whatever reveal_bid transactions ran since the
\* page last read the lot.
C34_DeclaresCurrentBest ==
    [][(client.pc = "proof" /\ res'.op = "finalize_with_zk" /\ res'.err = "ok")
           => /\ res'.addr = lots[res'.lot_id].mejor_postor
              /\ res'.amount = lots[res'.lot_id].mejor_puja]_vars
C36_CountIsLots ==
    /\ [](get_lot_count = Cardinality(created))
    /\ [][IF Did("create_lot")'
          THEN get_lot_count' = get_lot_count + 1
          ELSE get_lot_count' = get_lot_count]_vars
\* C37: a successful reveal_bid leaves the commitment in place, and the same
\* reveal made again at once succeeds and changes neither the lot nor the
\* commitments nor the roster.
C37_RevealAgain ==
    \A a \in Accounts, l \in LotIds, x \in Amounts, n \in Nonces :
        (/\ Did("reveal_bid") /\ res.caller = a /\ res.lot_id = l
         /\ res.amount = x /\ res.felt = n)
            => /\ commitments[<<a, l>>] = commit_hash(n, x, l, a)
               /\ reveal_bid_err(a, l, x, n) = "ok"
               /\ reveal_bid_lot(lots[l], a, x) = lots[l]

\* reveal_bid writes nothing but the lot and the result.
C37_RevealKeepsRest ==
    [][Did("reveal_bid")' =>
          UNCHANGED <<commitments, bidders_count, bidder_at, lot_count,
                      winner_record, payment_done>>]_vars

C37_RevealIdempotent == []C37_RevealAgain /\ C37_RevealKeepsRest

\* A bidder revealed a bid that took the lot, and the same reveal is open
\* to it again.
C37_Witness ==
    /\ Did("reveal_bid")
    /\ lots[res.lot_id].mejor_postor = res.caller
    /\ lots[res.lot_id].mejor_puja = res.amount
    /\ reveal_bid_err(res.caller, res.lot_id, res.amount, res.felt) = "ok"
\* C38: when no handler is running, every bid in bids_<lot> and every entry
\* zk_<lot>_<account> belongs to an account that made a successful
\* commit_bid on the lot (it is in the roster), so a commit that failed left
\* nothing behind, and bids_<lot> holds at most one bid per account.
C38_LocalBidsAreOnChain ==
    client.pc = "idle" =>
        \A l \in LotIds :
            LET list == client.bids[l]
            IN  /\ \A i \in DOMAIN list : already_exists(l, list[i].winner)
                /\ \A a \in Accounts :
                       client.zk[<<a, l>>].set => already_exists(l, a)
                /\ \A i, j \in DOMAIN list :
                       i # j => list[i].winner # list[j].winner
\* C39: a verifyAndRestore that was started for another lot or another
\* account than the ones now selected leaves the committed flag, the amount,
\* the nonce and the commitment shown as they are when it completes (no
\* handler running, so that the four are what the form shows); and
\* once no verifyAndRestore is pending and no handler is running, committed
\* is set only if the active account is in the roster of the selected lot.
C39_Shown(c) == <<c.committed, c.amount, c.nonce, c.commitment>>

C39_StaleKeepsShown ==
    [][\A call \in client.pending :
          (/\ client.pc = "idle"
           /\ client'.pending = client.pending \ {call}
           /\ call # <<client.lot_id, client.account>>)
              => C39_Shown(client') = C39_Shown(client)]_vars

C39_CommittedIsInRoster ==
    (client.pc = "idle" /\ client.pending = {} /\ client.committed)
        => already_exists(client.lot_id, client.account)

\* C39: both parts together.
C39_RestoreIsCurrent == []C39_CommittedIsInRoster /\ C39_StaleKeepsShown
====
